---------------------------- MODULE Spec2Model ----------------------------
(***************************************************************************)
(* Model of the personal calendar manager (src/without_ui_colors.py).      *)
(*                                                                         *)
(* A string is a sequence of one-character strings, so that strip,         *)
(* startswith, "in" and split are computed character by character.  The    *)
(* events file is the sequence of its lines, each line ending in "\n".     *)
(* The program blocks on input() at well-defined places; pc names the      *)
(* place the program is at, and there is one action per stretch of code    *)
(* between two such places.                                                *)
(***************************************************************************)
EXTENDS Integers, Sequences, FiniteSets, TLC

VARIABLES
    pc,           \* position of the program (see Positions)
    padYear,      \* the build's strftime("%Y"): TRUE when it zero-pads to 4 digits
    file,         \* events.txt: the sequence of its lines
    recs,         \* history: for each line of file, the (date, description) added
    choice,       \* run(): the last menu choice read, stripped
    date_str,     \* the handler's local date_str
    description,  \* the handler's local description
    typed,        \* the text last typed at a description prompt
    checked,      \* ValidateDate only: validate_date's argument and its outcome
    msg,          \* what the last step printed
    viewOut,      \* the descriptions view_events printed
    nRemoved,     \* history: how many lines the last delete_event left out
    opened        \* history: the modes the last step opened the file in

vars == <<pc, padYear, file, recs, choice, date_str, description, typed,
          checked, msg, viewOut, nRemoved, opened>>

-----------------------------------------------------------------------------
(* Bounds *)

\* add_event is not offered once the file holds this many lines.
MaxLines == 3

-----------------------------------------------------------------------------
(* Strings *)

NL == "\n"
Whitespace == {" ", NL}
Digits == <<"0", "1", "2", "3", "4", "5", "6", "7", "8", "9">>
DigitSet == {Digits[i] : i \in 1..10}

Tail2(s, n) == SubSeq(s, n + 1, Len(s))

RECURSIVE LStrip(_)
LStrip(s) == IF s # <<>> /\ s[1] \in Whitespace THEN LStrip(Tail(s)) ELSE s

RECURSIVE RStrip(_)
RStrip(s) ==
    IF s # <<>> /\ s[Len(s)] \in Whitespace
    THEN RStrip(SubSeq(s, 1, Len(s) - 1)) ELSE s

\* str.strip()
Strip(s) == RStrip(LStrip(s))

\* str.startswith(p)
StartsWith(s, p) == Len(p) <= Len(s) /\ SubSeq(s, 1, Len(p)) = p

\* The 1-based places where p occurs in s.
Occurrences(s, p) ==
    {i \in 1..(Len(s) - Len(p) + 1) : SubSeq(s, i, i + Len(p) - 1) = p}

\* p in s
Contains(s, p) == p = <<>> \/ Occurrences(s, p) # {}

Min(S) == CHOOSE x \in S : \A y \in S : x <= y
Max(S) == CHOOSE x \in S : \A y \in S : x >= y

\* A mis-split a maintainer could write: rsplit(sep, 1).
SplitLast(s, sep) ==
    IF Occurrences(s, sep) = {} THEN <<s>>
    ELSE LET i == Max(Occurrences(s, sep))
         IN  <<SubSeq(s, 1, i - 1), Tail2(s, i + Len(sep) - 1)>>

\* str.split(sep, 1): one element when sep does not occur, else two.
Split1(s, sep) ==
    IF Occurrences(s, sep) = {} THEN <<s>>
    ELSE LET i == Min(Occurrences(s, sep))
         IN  <<SubSeq(s, 1, i - 1), Tail2(s, i + Len(sep) - 1)>>

\* The record delimiter " | ".
Delim == <<" ", "|", " ">>

-----------------------------------------------------------------------------
(* Numbers and calendar dates *)

DigitVal(c) == (CHOOSE i \in 1..10 : Digits[i] = c) - 1

IsDigits(t) == t # <<>> /\ \A i \in 1..Len(t) : t[i] \in DigitSet

RECURSIVE DropZeros(_)
DropZeros(t) == IF Len(t) > 1 /\ t[1] = "0" THEN DropZeros(Tail(t)) ELSE t

\* Lexicographic > on digit strings of the same length.
RECURSIVE GreaterLex(_, _)
GreaterLex(a, b) ==
    IF a = <<>> THEN FALSE
    ELSE IF a[1] # b[1] THEN DigitVal(a[1]) > DigitVal(b[1])
    ELSE GreaterLex(Tail(a), Tail(b))

\* INT_MAX of a 32-bit C int, which datetime.replace converts its fields to.
CIntMax == <<"2", "1", "4", "7", "4", "8", "3", "6", "4", "7">>

\* The number t denotes does not fit a C int.
ExceedsCInt(t) ==
    LET d == DropZeros(t)
    IN  Len(d) > Len(CIntMax) \/ (Len(d) = Len(CIntMax) /\ GreaterLex(d, CIntMax))

\* int(t) for a digit string that fits a C int, and more than four
\* significant digits collapse to 10000 (beyond every datetime field).
RECURSIVE ToInt(_)
ToInt(t) ==
    IF Len(DropZeros(t)) > 4 THEN 10000
    ELSE IF t = <<>> THEN 0
    ELSE 10 * ToInt(SubSeq(t, 1, Len(t) - 1)) + DigitVal(t[Len(t)])

RECURSIVE IntToStr(_)
IntToStr(n) ==
    IF n < 10 THEN <<Digits[n + 1]>>
    ELSE IntToStr(n \div 10) \o <<Digits[(n % 10) + 1]>>

RECURSIVE ZeroPad(_, _)
ZeroPad(t, w) == IF Len(t) >= w THEN t ELSE ZeroPad(<<"0">> \o t, w)

IsLeap(y) == y % 4 = 0 /\ (y % 100 # 0 \/ y % 400 = 0)

DaysInMonth(y, m) ==
    IF m = 2 THEN (IF IsLeap(y) THEN 29 ELSE 28)
    ELSE IF m \in {4, 6, 9, 11} THEN 30 ELSE 31

\* datetime accepts exactly these (MINYEAR = 1, MAXYEAR = 9999).
IsCalendarDate(y, m, d) ==
    /\ y >= 1 /\ y <= 9999
    /\ m >= 1 /\ m <= 12
    /\ d >= 1 /\ d <= DaysInMonth(y, m)

-----------------------------------------------------------------------------
(* dateutil's parser.parse(date_str, fuzzy=False), as far as validate_date   *)
(* depends on it.  Modelled token shapes: N-N-N, a lone number, and          *)
(* "Mon N, N"; every other string of the input domain has a token that       *)
(* the non-fuzzy parser rejects.                                             *)

CharClass(c) ==
    IF c \in DigitSet THEN "digit"
    ELSE IF c \in Whitespace THEN "space"
    ELSE IF c \in {"-", ",", "|"} THEN "punct"
    ELSE "alpha"

\* Length of the token s starts with: a run of digits, of letters or of
\* white space, or one punctuation character.
RECURSIVE RunLen(_, _)
RunLen(s, cls) ==
    IF s = <<>> \/ CharClass(s[1]) # cls THEN 0
    ELSE IF cls = "punct" THEN 1
    ELSE 1 + RunLen(Tail(s), cls)

RECURSIVE Tokens(_)
Tokens(s) ==
    IF s = <<>> THEN <<>>
    ELSE LET n == RunLen(s, CharClass(s[1]))
         IN  <<SubSeq(s, 1, n)>> \o Tokens(Tail2(s, n))

\* The default the parser fills missing fields from: datetime.now().
Today == [y |-> 2026, m |-> 11, d |-> 4]

\* parserinfo.month() on the month names of the input domain.
MonthOf(t) == IF t = <<"M", "a", "y">> THEN 5 ELSE 0

ValueError == [kind |-> "ValueError"]
OverflowError == [kind |-> "OverflowError"]

\* _ymd.append of a token given as text: more than two digits make it the year.
StrEntry(t) ==
    [big |-> ExceedsCInt(t), val |-> ToInt(t),
     lab |-> IF Len(t) > 2 THEN "Y" ELSE "-"]

\* _ymd.append of a token given as a number: above 100 it is the year.
DecEntry(t) ==
    [big |-> ExceedsCInt(t), val |-> ToInt(t),
     lab |-> IF ToInt(t) > 100 THEN "Y" ELSE "-"]

MonthEntry(n) == [big |-> FALSE, val |-> n, lab |-> "M"]
Field(n) == [big |-> FALSE, val |-> n, lab |-> "-"]

\* parserinfo.convertyear: a two-digit year without century gets one.
ConvertYear(e, century) ==
    IF e.big \/ e.val >= 100 \/ century THEN e
    ELSE LET y == e.val + 100 * (Today.y \div 100)
         IN  Field(IF y >= Today.y + 50 THEN y - 100
                   ELSE IF y < Today.y - 50 THEN y + 100 ELSE y)

\* _build_naive: default.replace(year, month, day).
BuildNaive(ye, me, de) ==
    IF ye.big \/ me.big \/ de.big THEN OverflowError
    ELSE IF IsCalendarDate(ye.val, me.val, de.val)
    THEN [kind |-> "date", y |-> ye.val, m |-> me.val, d |-> de.val]
    ELSE ValueError

\* _ymd.resolve_ymd for three members, then convertyear and _build_naive.
Resolve3(e) ==
    LET years == {i \in 1..3 : e[i].lab = "Y"}
        century == years # {}
        order ==
            IF e[1].lab = "M"
            THEN (IF e[3].lab = "Y" \/ ~(e[2].big \/ e[2].val > 31)
                  THEN <<3, 1, 2>> ELSE <<2, 1, 3>>)
            ELSE IF e[1].big \/ e[1].val > 31 \/ e[1].lab = "Y" THEN <<1, 2, 3>>
            ELSE IF e[1].val > 12 THEN <<3, 2, 1>>
            ELSE <<3, 1, 2>>
    IN  IF Cardinality(years) > 1 THEN ValueError
        ELSE BuildNaive(ConvertYear(e[order[1]], century),
                        e[order[2]], e[order[3]])

\* A lone number: the year when above 31, else the day; the rest is today's.
Resolve1(t) ==
    LET e == DecEntry(t)
        isYear == e.big \/ e.val > 31
        ye == IF isYear THEN ConvertYear(e, e.lab = "Y") ELSE Field(Today.y)
        dim == DaysInMonth(IF ye.big THEN Today.y ELSE ye.val, Today.m)
        de == IF isYear
              THEN Field(IF Today.d > dim THEN dim ELSE Today.d) ELSE e
    IN  BuildNaive(ye, Field(Today.m), de)

\* parser.parse: a date, or the exception it raises.
parse(s) ==
    LET t == Tokens(s)
    IN  IF Len(t) = 5 /\ IsDigits(t[1]) /\ t[2] = <<"-">> /\ IsDigits(t[3])
           /\ t[4] = <<"-">> /\ IsDigits(t[5])
        THEN Resolve3(<<StrEntry(t[1]), StrEntry(t[3]), StrEntry(t[5])>>)
        ELSE IF Len(t) = 1 /\ IsDigits(t[1]) /\ Len(t[1]) = 6
        THEN Resolve3(<<StrEntry(SubSeq(t[1], 1, 2)), StrEntry(SubSeq(t[1], 3, 4)),
                        StrEntry(SubSeq(t[1], 5, 6))>>)
        ELSE IF Len(t) = 1 /\ IsDigits(t[1]) /\ Len(t[1]) \in {8, 12, 14}
        THEN Resolve3(<<StrEntry(SubSeq(t[1], 1, 4)), StrEntry(SubSeq(t[1], 5, 6)),
                        StrEntry(SubSeq(t[1], 7, 8))>>)
        ELSE IF Len(t) = 1 /\ IsDigits(t[1])
        THEN Resolve1(t[1])
        ELSE IF Len(t) = 6 /\ MonthOf(t[1]) # 0 /\ CharClass(t[2][1]) = "space"
                /\ IsDigits(t[3]) /\ t[4] = <<",">> /\ CharClass(t[5][1]) = "space"
                /\ IsDigits(t[6])
        THEN Resolve3(<<MonthEntry(MonthOf(t[1])), DecEntry(t[3]), DecEntry(t[6])>>)
        ELSE ValueError

\* strftime("%Y"): the C library decides whether a year below 1000 is padded.
YearText(y, pad) == IF pad THEN ZeroPad(IntToStr(y), 4) ELSE IntToStr(y)

\* parsed_date.strftime("%Y-%m-%d")
strftime(dt, pad) ==
    YearText(dt.y, pad) \o <<"-">> \o ZeroPad(IntToStr(dt.m), 2)
        \o <<"-">> \o ZeroPad(IntToStr(dt.d), 2)

\* validate_date: "True", "False", or the exception that escapes it.
validate_date(s, pad) ==
    LET p == parse(s)
    IN  IF p.kind = "date"
        THEN (IF strftime(p, pad) = s THEN "True" ELSE "False")
        ELSE IF p.kind = "ValueError" THEN "False"
        ELSE p.kind

-----------------------------------------------------------------------------
(* What the user may type *)

D_A == <<"2", "0", "2", "5", "-", "0", "5", "-", "2", "0">>
D_B == <<"2", "0", "2", "4", "-", "0", "2", "-", "2", "9">>
D_padded == <<"0", "9", "9", "9", "-", "1", "2", "-", "3", "1">>
D_short == <<"9", "9", "9", "-", "1", "2", "-", "3", "1">>
I_spaced == <<" ", "2", "0", "2", "5", "-", "0", "5", "-", "2", "0", " ">>
I_nopad == <<"2", "0", "2", "5", "-", "5", "-", "2", "0">>
I_badday == <<"2", "0", "2", "3", "-", "0", "2", "-", "2", "9">>
I_month13 == <<"2", "0", "2", "5", "-", "1", "3", "-", "0", "1">>
I_bare == <<"1", "5">>
I_named == <<"M", "a", "y", " ", "2", ",", " ", "2", "0", "2", "5">>
I_abc == <<"a", "b", "c">>
I_huge == <<"9", "9", "9", "9", "9", "9", "9", "9", "9", "9", "9">>

\* Typed at a date prompt.
DateInputs == {D_A, D_B, D_padded, D_short, I_spaced, I_nopad, I_huge}

T_a == <<"a">>
T_a_spaced == <<" ", "a", " ">>
T_a_b == <<"a", " ", "|", " ", "b">>
T_20 == <<"2", "0">>
T_blank == <<" ", " ">>

\* Typed at add_event's description prompt.
AddInputs == {T_a, T_a_spaced, T_a_b, T_blank, <<>>}

\* Typed at delete_event's description prompt.
DeleteInputs == {T_a, T_a_spaced, T_a_b, T_20, T_blank, <<>>}

\* Typed at the menu prompt.
ChoiceInputs ==
    {<<"1">>, <<"2">>, <<"3">>, <<"4">>, <<"5">>, <<" ", "5", " ">>,
     <<"6">>, <<>>}

\* Typed at the year and month prompts of display_calendar.
NumberInputs ==
    {<<"2", "0", "2", "5">>, <<" ", "5">>, <<"1", "3">>, <<"0">>,
     <<"-", "1">>, <<"a">>, <<>>}

-----------------------------------------------------------------------------
(* The events file *)

NoCheck == [s |-> <<>>, r |-> "none"]

\* open(filename, mode): "w" truncates, "r" and "a" leave the content.
AfterOpen(mode, content) == IF mode = "w" THEN <<>> ELSE content

\* add_event's f.write argument.
FormatLine(d, text) == d \o Delim \o text \o <<NL>>

\* The description taken as typed, without strip().
Unstripped(raw) == raw

\* input(...).strip() of the description prompts.
ReadDescription(raw) == Strip(raw)

\* A field-equality test a maintainer could write instead of the substring test.
MatchesExactly(line, d, s) == line = FormatLine(d, s)

\* delete_event's test for leaving a line out.
Matches(line, d, s) == StartsWith(line, d) /\ Contains(line, s)

\* The places, among the first n lines, of the lines delete_event writes back.
RECURSIVE KeptIdx(_, _, _, _)
KeptIdx(events, d, s, n) ==
    IF n = 0 THEN <<>>
    ELSE KeptIdx(events, d, s, n - 1)
             \o (IF Matches(events[n], d, s) THEN <<>> ELSE <<n>>)

Pick(seq, idx) == [i \in 1..Len(idx) |-> seq[idx[i]]]

\* A mode that truncates the file on opening.
ViewModeW == "w"

\* view_events' mode for open().
ViewMode == "r"

\* A split on the last delimiter of the line instead of the first.
ViewSplitLast(line) == SplitLast(Strip(line), Delim)

\* view_events' split of a stripped line.
ViewSplit(line) == Split1(Strip(line), Delim)

\* The descriptions view_events prints for the lines it has read.
RECURSIVE ViewDescs(_, _)
ViewDescs(lines, d) ==
    IF lines = <<>> THEN <<>>
    ELSE (IF StartsWith(lines[1], d) /\ Len(ViewSplit(lines[1])) = 2
          THEN <<ViewSplit(lines[1])[2]>> ELSE <<>>)
             \o ViewDescs(Tail(lines), d)

\* The unpacking "_, description = ..." raises ValueError on such a line.
ViewRaises(lines, d) ==
    \E i \in 1..Len(lines) :
        StartsWith(lines[i], d) /\ Len(ViewSplit(lines[i])) # 2

\* int(text.strip()) succeeds.
IsIntText(raw) ==
    LET t == Strip(raw)
    IN  IsDigits(t) \/ (Len(t) > 1 /\ t[1] \in {"-", "+"} /\ IsDigits(Tail(t)))

\* 1 <= int(text.strip()) <= 12
IsMonthText(raw) ==
    LET t == Strip(raw)
    IN  IsIntText(raw) /\ t[1] # "-" /\ ToInt(IF t[1] = "+" THEN Tail(t) ELSE t) \in 1..12

-----------------------------------------------------------------------------
(* The program *)

DatePrompts == {"add_date", "view_date", "del_date"}
\* The places inside run()'s loop; the others are "done" (the break) and
\* "crashed" (an exception left run()).
Running ==
    {"menu", "cal_year", "cal_month", "add_desc", "del_desc"} \cup DatePrompts

Init ==
    /\ pc = "menu"
    /\ padYear \in BOOLEAN
    /\ file = <<>>
    /\ recs = <<>>
    /\ choice = <<>>
    /\ date_str = <<>>
    /\ description = <<>>
    /\ typed = <<>>
    /\ checked = NoCheck
    /\ msg = "welcome"
    /\ viewOut = <<>>
    /\ nRemoved = 0
    /\ opened = {"w"}

\* What a step that is not part of a handler's file work leaves behind.
Quiet ==
    /\ viewOut' = <<>>
    /\ nRemoved' = 0
    /\ opened' = {}
    /\ UNCHANGED <<padYear, file, recs>>

\* run(): one reading of the menu choice and the dispatch on it.
Choose(raw) ==
    /\ pc = "menu"
    /\ choice' = Strip(raw)
    /\ choice' = <<"2">> => Len(file) < MaxLines
    /\ pc' = IF choice' = <<"1">> THEN "cal_year"
             ELSE IF choice' = <<"2">> THEN "add_date"
             ELSE IF choice' = <<"3">> THEN "view_date"
             ELSE IF choice' = <<"4">> THEN "del_date"
             ELSE IF choice' = <<"5">> THEN "done"
             ELSE "menu"
    /\ msg' = IF choice' = <<"5">> THEN "goodbye"
              ELSE IF pc' = "menu" THEN "invalid_choice" ELSE "prompt"
    /\ date_str' = <<>>
    /\ description' = <<>>
    /\ typed' = <<>>
    /\ UNCHANGED checked
    /\ Quiet

\* display_calendar, up to the month prompt.
CalendarYear(raw) ==
    /\ pc = "cal_year"
    /\ IF IsIntText(raw)
       THEN pc' = "cal_month" /\ msg' = "prompt"
       ELSE pc' = "menu" /\ msg' = "invalid_input"
    /\ UNCHANGED <<choice, date_str, description, typed, checked>>
    /\ Quiet

\* display_calendar, from the month prompt on.
CalendarMonth(raw) ==
    /\ pc = "cal_month"
    /\ pc' = "menu"
    /\ msg' = IF ~IsIntText(raw) THEN "invalid_input"
              ELSE IF IsMonthText(raw) THEN "calendar" ELSE "invalid_month"
    /\ UNCHANGED <<choice, date_str, description, typed, checked>>
    /\ Quiet

\* get_valid_date: an input that validate_date turns down, or fails on.
GetValidDateRetry(raw) ==
    /\ pc \in DatePrompts
    /\ validate_date(Strip(raw), padYear) # "True"
    /\ IF validate_date(Strip(raw), padYear) = "False"
       THEN pc' = pc /\ msg' = "invalid_date"
       ELSE pc' = "crashed" /\ msg' = "traceback"
    /\ UNCHANGED <<choice, date_str, description, typed, checked>>
    /\ Quiet

\* get_valid_date returning to add_event or delete_event.
GetValidDate(raw) ==
    /\ pc \in {"add_date", "del_date"}
    /\ validate_date(Strip(raw), padYear) = "True"
    /\ date_str' = Strip(raw)
    /\ pc' = IF pc = "add_date" THEN "add_desc" ELSE "del_desc"
    /\ msg' = "prompt"
    /\ UNCHANGED <<choice, description, typed, checked>>
    /\ Quiet

\* add_event, from the description prompt on.
AddEvent(raw, ioFails) ==
    /\ pc = "add_desc"
    /\ pc' = "menu"
    /\ typed' = raw
    /\ description' = ReadDescription(raw)
    /\ IF description' = <<>>
       THEN /\ ~ioFails
            /\ msg' = "desc_empty"
            /\ opened' = {}
            /\ UNCHANGED <<file, recs>>
       ELSE IF ioFails
       THEN /\ msg' = "write_error"
            /\ opened' = {}
            /\ UNCHANGED <<file, recs>>
       ELSE /\ msg' = "added"
            /\ opened' = {"a"}
            /\ file' = Append(AfterOpen("a", file), FormatLine(date_str, description'))
            /\ recs' = Append(recs, [date |-> date_str, desc |-> description'])
    /\ viewOut' = <<>>
    /\ nRemoved' = 0
    /\ UNCHANGED <<padYear, choice, date_str, checked>>

\* view_events: the accepted date and the reading of the file.  readFail is
\* the number of lines read before an IOError, or -1 when there is none.
ViewEvents(raw, readFail) ==
    /\ pc = "view_date"
    /\ validate_date(Strip(raw), padYear) = "True"
    /\ date_str' = Strip(raw)
    /\ LET content == AfterOpen(ViewMode, file)
           seen == IF readFail < 0 THEN content ELSE SubSeq(content, 1, readFail)
       IN  /\ file' = content
           /\ recs' = IF content = file THEN recs ELSE <<>>
           /\ opened' = IF readFail = 0 THEN {} ELSE {ViewMode}
           /\ viewOut' = ViewDescs(seen, date_str')
           /\ IF ViewRaises(seen, date_str')
              THEN pc' = "crashed" /\ msg' = "traceback"
              ELSE /\ pc' = "menu"
                   /\ msg' = IF readFail >= 0 THEN "read_error"
                             ELSE IF viewOut' = <<>> THEN "no_events"
                             ELSE "events"
    /\ nRemoved' = 0
    /\ UNCHANGED <<padYear, choice, description, typed, checked>>

\* delete_event, from the description prompt on.  fault is "none", "read"
\* (open or readlines fails), "open" (the open for writing fails) or "write"
\* (the f.write of line failAt fails).
DeleteEvent(raw, fault, failAt) ==
    /\ pc = "del_desc"
    /\ pc' = "menu"
    /\ typed' = raw
    /\ description' = ReadDescription(raw)
    /\ IF description' = <<>>
       THEN /\ fault = "none"
            /\ msg' = "desc_empty"
            /\ opened' = {}
            /\ nRemoved' = 0
            /\ UNCHANGED <<file, recs>>
       ELSE IF fault \in {"read", "open"}
       THEN /\ msg' = "access_error"
            /\ opened' = IF fault = "read" THEN {} ELSE {"r"}
            /\ nRemoved' = 0
            /\ UNCHANGED <<file, recs>>
       ELSE LET events == file
                upTo == IF fault = "write" THEN failAt - 1 ELSE Len(events)
                idx == KeptIdx(events, date_str, description', upTo)
            IN  /\ fault = "write" =>
                       /\ failAt \in 1..Len(events)
                       /\ ~Matches(events[failAt], date_str, description')
                /\ file' = AfterOpen("w", file) \o Pick(events, idx)
                /\ recs' = Pick(recs, idx)
                /\ opened' = {"r", "w"}
                /\ nRemoved' = upTo - Len(idx)
                /\ msg' = IF fault = "write" THEN "access_error"
                          ELSE IF nRemoved' > 0 THEN "deleted" ELSE "no_match"
    /\ viewOut' = <<>>
    /\ UNCHANGED <<padYear, choice, date_str, checked>>

Next ==
    \/ \E raw \in ChoiceInputs : Choose(raw)
    \/ \E raw \in NumberInputs : CalendarYear(raw)
    \/ \E raw \in NumberInputs : CalendarMonth(raw)
    \/ \E raw \in DateInputs : GetValidDateRetry(raw)
    \/ \E raw \in DateInputs : GetValidDate(raw)
    \/ \E raw \in AddInputs, ioFails \in BOOLEAN : AddEvent(raw, ioFails)
    \/ \E raw \in DateInputs, readFail \in -1..Len(file) : ViewEvents(raw, readFail)
    \/ \E raw \in DeleteInputs, fault \in {"none", "read", "open", "write"},
          failAt \in 0..Len(file) :
           /\ (fault # "write" => failAt = 0)
           /\ DeleteEvent(raw, fault, failAt)

Spec == Init /\ [][Next]_vars

-----------------------------------------------------------------------------
(* validate_date on its own: every input of ValidateInputs, on both builds *)

YearTexts ==
    {<<"2", "0", "2", "5">>, <<"2", "0", "2", "4">>, <<"2", "0", "2", "3">>,
     <<"1", "9", "0", "0">>, <<"0", "9", "9", "9">>, <<"9", "9", "9">>,
     <<"9", "9">>, <<"0", "0", "0", "0">>, <<"1", "0", "0", "0", "0">>, I_huge}
MonthTexts == {<<"0", "2">>, <<"2">>, <<"1", "2">>, <<"1", "3">>}
DayTexts == {<<"2", "9">>, <<"3", "0">>, <<"3", "1">>, <<"0", "1">>, <<"1">>}

ValidateInputs ==
    {y \o <<"-">> \o m \o <<"-">> \o d :
         y \in YearTexts, m \in MonthTexts, d \in DayTexts}
        \cup {I_nopad, I_badday, I_month13, I_bare, I_named, I_abc, I_huge, <<>>,
              <<"2", "0", "2", "5", "0", "5", "2", "0">>}

InitValidate ==
    /\ pc = "validate_date"
    /\ padYear \in BOOLEAN
    /\ checked \in {[s |-> i, r |-> "none"] : i \in ValidateInputs}
    /\ file = <<>> /\ recs = <<>> /\ choice = <<>> /\ date_str = <<>>
    /\ description = <<>> /\ typed = <<>> /\ msg = "prompt"
    /\ viewOut = <<>> /\ nRemoved = 0 /\ opened = {}

\* One call of validate_date.
ValidateDate ==
    /\ pc = "validate_date"
    /\ checked.r = "none"
    /\ checked' = [checked EXCEPT !.r = validate_date(checked.s, padYear)]
    /\ UNCHANGED <<pc, padYear, file, recs, choice, date_str, description,
                   typed, msg, viewOut, nRemoved, opened>>

NextValidate == ValidateDate

SpecValidate == InitValidate /\ [][NextValidate]_vars

-----------------------------------------------------------------------------
(* Vocabulary of the properties *)

\* s is the zero-padded YYYY-MM-DD form of a calendar date.
IsCanonicalDate(s) ==
    /\ Len(s) = 10
    /\ s[5] = "-" /\ s[8] = "-"
    /\ \A i \in {1, 2, 3, 4, 6, 7, 9, 10} : s[i] \in DigitSet
    /\ IsCalendarDate(ToInt(SubSeq(s, 1, 4)), ToInt(SubSeq(s, 6, 7)),
                      ToInt(SubSeq(s, 9, 10)))

\* line is "<date> | <description>\n" with a canonical date and a
\* description that is not empty.
IsRecordLine(line) ==
    /\ Len(line) >= 15
    /\ IsCanonicalDate(SubSeq(line, 1, 10))
    /\ SubSeq(line, 11, 13) = Delim
    /\ line[Len(line)] = NL
    /\ \A i \in 1..(Len(line) - 1) : line[i] # NL

\* The descriptions, in order, of the records of rs dated d.
RECURSIVE DescriptionsOn(_, _)
DescriptionsOn(rs, d) ==
    IF rs = <<>> THEN <<>>
    ELSE (IF rs[1].date = d THEN <<rs[1].desc>> ELSE <<>>)
             \o DescriptionsOn(Tail(rs), d)

\* line starts with d and has s somewhere in it.
Hits(line, d, s) ==
    /\ \A i \in 1..Len(d) : i <= Len(line) /\ line[i] = d[i]
    /\ \E k \in 0..(Len(line) - Len(s)) : \A j \in 1..Len(s) : line[k + j] = s[j]

\* lines without those that Hits.
RECURSIVE Without(_, _, _)
Without(lines, d, s) ==
    IF lines = <<>> THEN <<>>
    ELSE (IF Hits(lines[1], d, s) THEN <<>> ELSE <<lines[1]>>)
             \o Without(Tail(lines), d, s)

-----------------------------------------------------------------------------
(* Properties *)

C3_DeleteAllOrNothing ==
    [][(pc = "del_desc" /\ description' # <<>>)
          => \/ file' = file
             \/ file' = Without(file, date_str, description')]_vars

\* C4: a delete_event that matches no line leaves the file as it was, and
\* reports that no matching event was found (or, at most, the I/O error).
C4_NoMatchLeavesFile ==
    [][(/\ pc = "del_desc"
        /\ description' # <<>>
        /\ \A i \in 1..Len(file) : ~Hits(file[i], date_str, description'))
          => /\ file' = file
             /\ msg' \in {"no_match", "access_error"}]_vars

\* C5: every line of the file is a valid YYYY-MM-DD date, the delimiter, a
\* description that is not empty, and a newline.
C5_FileWellFormed == \A i \in 1..Len(file) : IsRecordLine(file[i])

\* C6: no error raised inside a menu action leaves the action; the loop
\* shows the menu again.
C6_NoErrorEscapes == pc # "crashed"

\* C7: no step of view_events changes the events file.
C7_ViewLeavesFile == [][pc = "view_date" => file' = file]_vars

\* C7 witness: a view printed the events of a file that holds records.
C7_Witness ==
    /\ pc = "menu" /\ msg = "events"
    /\ opened = {"r"}
    /\ Len(file) = MaxLines

\* C8: validate_date answers True exactly for the zero-padded YYYY-MM-DD
\* form of a calendar date, and False, without raising, for anything else.
C8_ValidateDateExact ==
    checked.r # "none"
        => checked.r = (IF IsCanonicalDate(checked.s) THEN "True" ELSE "False")

\* C9: on an empty or blank description add_event and delete_event stop with
\* the message; the file is not opened and not changed.
C9_EmptyDescriptionAborts ==
    [][(pc \in {"add_desc", "del_desc"} /\ Strip(typed') = <<>>)
          => /\ file' = file
             /\ opened' = {}
             /\ msg' = "desc_empty"
             /\ pc' = "menu"]_vars

\* C9 witness: a blank description was turned down while the file held records.
C9_Witness ==
    /\ pc = "menu" /\ msg = "desc_empty"
    /\ typed = T_blank
    /\ file # <<>>

\* C10: the loop ends only on choice 5, which prints the farewell and
\* touches no file; any other input than 1-5 prints an error, leaves the file
\* alone and shows the menu again; choices 1-4 stay in the loop.
C10_LoopEndsOnlyOnFive ==
    [][/\ (pc \in Running /\ pc' \notin Running)
           => (pc = "menu" /\ choice' = <<"5">>)
       /\ (pc = "menu" /\ choice' = <<"5">>)
           => (pc' = "done" /\ msg' = "goodbye" /\ opened' = {} /\ file' = file)
       /\ (pc = "menu" /\ choice' \notin {<<"1">>, <<"2">>, <<"3">>, <<"4">>, <<"5">>})
           => (pc' = "menu" /\ msg' = "invalid_choice" /\ file' = file)]_vars

=============================================================================
